---------------------------- MODULE Spec2Model ----------------------------
(***************************************************************************)
(* Model of stellar/data/stellargraph.py: GraphSchema (type lookups,       *)
(* sampling tree, type adjacency list) and                                 *)
(* StellarGraphBase.create_graph_schema.                                   *)
(*                                                                         *)
(* Python values are modelled as follows.                                  *)
(*   list / tuple      sequence; Python index i is TLA+ index i + 1        *)
(*   dict              function                                            *)
(*   None / a value    <<>> / <<value>>  (None, Some)                      *)
(*   str               string; str(int) is the decimal conversion ToStr    *)
(*   raise             the record Raise(kind) in the variable ret          *)
(* Node type labels are strings ordered as Python orders them; relation    *)
(* labels are integers.                                                    *)
(***************************************************************************)
EXTENDS Integers, Sequences, FiniteSets, TLC

VARIABLES G, gs, pc, call, ret, to_process, clist, cur

vars == <<G, gs, pc, call, ret, to_process, clist, cur>>

(***************************************************************************)
(* Bounds of the model.                                                    *)
(***************************************************************************)
\* longest edge list of an enumerated graph
MaxEdges == 2
\* largest n_hops passed to the generators
MaxHops == 2
\* length of the long head_node_types sequence (more than 10 heads)
MaxHeads == 11
\* number of relations leaving one node type in the wide graph (more than 10 children)
MaxWide == 11

NodeIds == {1, 2}
NodeLabels == {"A", "B"}
\* a label no node of any graph carries
UnknownLabel == "Z"
RelLabels == {0, 1}
\* Python's order of the label strings
LabelOrder == <<"A", "B", "Z">>

\* deepest call stack before the interpreter raises RecursionError; it
\* exceeds every terminating recursion of the model
RecursionLimit == MaxHops + Cardinality(NodeLabels) + 2

None == <<>>
Some(v) == <<v>>

Return(v) == [raised |-> "", val |-> v]
Raise(kind) == [raised |-> kind, val |-> None]
NoCall == [op |-> "none"]
NoCur == [nt |-> "", ninx |-> 0, lvl |-> 0, ets |-> <<>>, k |-> 0]

(***************************************************************************)
(* Python built-ins                                                        *)
(***************************************************************************)
Rank(l) == CHOOSE i \in 1..Len(LabelOrder) : LabelOrder[i] = l

\* str < str
LabelLess(a, b) == Rank(a) < Rank(b)

IntLess(a, b) == a < b

EdgeType(n1, rel, n2) == [n1 |-> n1, rel |-> rel, n2 |-> n2]

\* tuple < tuple: field by field, n1 then rel then n2
EdgeTypeLess(a, b) ==
    \/ LabelLess(a.n1, b.n1)
    \/ a.n1 = b.n1 /\ a.rel < b.rel
    \/ a.n1 = b.n1 /\ a.rel = b.rel /\ LabelLess(a.n2, b.n2)

\* sorted(S) of a collection of distinct values: the element at position i
\* is the one with exactly i - 1 smaller elements
SortedLabels(S) ==
    [i \in 1..Cardinality(S) |->
        CHOOSE v \in S : Cardinality({y \in S : LabelLess(y, v)}) = i - 1]

SortedEdgeTypes(S) ==
    [i \in 1..Cardinality(S) |->
        CHOOSE v \in S : Cardinality({y \in S : EdgeTypeLess(y, v)}) = i - 1]

SortedInts(S) ==
    [i \in 1..Cardinality(S) |->
        CHOOSE v \in S : Cardinality({y \in S : IntLess(y, v)}) = i - 1]

Range(s) == {s[i] : i \in 1..Len(s)}

\* list.index(x) for x in the list: 0-based position of the first occurrence
Index(s, x) ==
    (CHOOSE i \in 1..Len(s) : s[i] = x /\ \A j \in 1..(i - 1) : s[j] # x) - 1

Digit(d) == <<"0", "1", "2", "3", "4", "5", "6", "7", "8", "9">>[d + 1]

RECURSIVE ToStr(_)
\* str(n) for n >= 0
ToStr(n) == IF n < 10 THEN Digit(n) ELSE ToStr(n \div 10) \o Digit(n % 10)

RECURSIVE Join(_, _)
\* sep.join(strs)
Join(sep, strs) ==
    IF strs = <<>> THEN ""
    ELSE IF Len(strs) = 1 THEN strs[1]
    ELSE strs[1] \o sep \o Join(sep, Tail(strs))

\* seq[index] with Python's negative indexing; <<>> when IndexError is raised
GetItem(seq, index) ==
    IF 0 <= index /\ index < Len(seq) THEN Some(seq[index + 1])
    ELSE IF index < 0 /\ -Len(seq) <= index THEN Some(seq[Len(seq) + index + 1])
    ELSE None

(***************************************************************************)
(* The graphs: the collaborator's nodes with their type label, its edge    *)
(* list in iteration order, and is_directed().                             *)
(***************************************************************************)
Edge(n1, n2, label) == [n1 |-> n1, n2 |-> n2, label |-> label]

EdgeChoices == {Edge(a, b, r) : a \in NodeIds, b \in NodeIds, r \in RelLabels}

\* edges() walks the adjacency node by node: the edge list is ordered
EdgeBefore(e, f) ==
    \/ e.n1 < f.n1
    \/ e.n1 = f.n1 /\ e.n2 < f.n2
    \/ e.n1 = f.n1 /\ e.n2 = f.n2 /\ e.label <= f.label

EdgeLists ==
    {es \in UNION {[1..k -> EdgeChoices] : k \in 0..MaxEdges} :
        \A i \in 1..Len(es), j \in 1..Len(es) : i < j => EdgeBefore(es[i], es[j])}

SmallGraphs ==
    {[node |-> nd, edges |-> es, directed |-> d] :
        nd \in [NodeIds -> NodeLabels], es \in EdgeLists, d \in BOOLEAN}

\* node 1 of type A has MaxWide relations to node 2 of type B, which has one back
WideGraph ==
    [node |-> (1 :> "A") @@ (2 :> "B"),
     edges |-> [k \in 1..(MaxWide + 1) |->
                   IF k <= MaxWide THEN Edge(1, 2, k - 1) ELSE Edge(2, 1, 0)],
     directed |-> TRUE]

Graphs == SmallGraphs \cup {WideGraph}

(***************************************************************************)
(* StellarGraphBase.create_graph_schema                                    *)
(***************************************************************************)
\* AddEdge without the registration of the reverse triple
AddEdge_ForwardOnly(g, acc, e) ==
    LET fwd == EdgeType(g.node[e.n1], e.label, g.node[e.n2])
    IN  [edge_types |-> acc.edge_types \cup {fwd},
         graph_schema |-> [acc.graph_schema EXCEPT ![g.node[e.n1]] = @ \cup {fwd}]]

\* one iteration of "for e in self.edges()" on acc = the set edge_types and
\* the dict graph_schema
AddEdge(g, acc, e) ==
    LET node_type_1 == g.node[e.n1]
        node_type_2 == g.node[e.n2]
        edge_type == e.label
        fwd == EdgeType(node_type_1, edge_type, node_type_2)
        rev == EdgeType(node_type_2, edge_type, node_type_1)
        s1 == [acc.graph_schema EXCEPT ![node_type_1] = @ \cup {fwd}]
    IN  IF ~g.directed
        THEN [edge_types |-> acc.edge_types \cup {fwd, rev},
              graph_schema |-> [s1 EXCEPT ![node_type_2] = @ \cup {rev}]]
        ELSE [edge_types |-> acc.edge_types \cup {fwd},
              graph_schema |-> s1]

RECURSIVE ScanEdges(_, _, _)
\* the loop over self.edges(), from edge k on
ScanEdges(g, acc, k) ==
    IF k > Len(g.edges) THEN acc
    ELSE ScanEdges(g, AddEdge(g, acc, g.edges[k]), k + 1)

\* SchemaEntry with the indices sorted in descending order
SchemaEntry_Descending(edge_types, node_data) ==
    LET einxs == SortedInts({Index(edge_types, et) : et \in node_data})
    IN  [i \in 1..Len(einxs) |-> edge_types[einxs[Len(einxs) + 1 - i] + 1]]

\* schema[node_label] from the sorted edge_types and the bucket node_data
SchemaEntry(edge_types, node_data) ==
    LET einxs == SortedInts({Index(edge_types, et) : et \in node_data})
    IN  [i \in 1..Len(einxs) |-> edge_types[einxs[i] + 1]]

create_graph_schema(g, create_type_maps) ==
    LET node_types == SortedLabels({g.node[n] : n \in DOMAIN g.node})
        scan == ScanEdges(g, [edge_types |-> {},
                              graph_schema |-> [nt \in Range(node_types) |-> {}]], 1)
        edge_types == SortedEdgeTypes(scan.edge_types)
        schema == [node_label \in DOMAIN scan.graph_schema |->
                      SchemaEntry(edge_types, scan.graph_schema[node_label])]
        node_type_map == [n \in DOMAIN g.node |-> Index(node_types, g.node[n])]
        \* every entry of the comprehension is stored under the key e, the
        \* variable the loop over self.edges() left behind
        e == g.edges[Len(g.edges)]
        edge_type_map ==
            IF g.edges = <<>> THEN <<>>
            ELSE <<e.n1, e.n2>> :>
                    Index(edge_types,
                          EdgeType(node_types[node_type_map[e.n1] + 1], e.label,
                                   node_types[node_type_map[e.n2] + 1]))
    IN  [node_types |-> node_types,
         edge_types |-> edge_types,
         schema |-> schema,
         node_type_map |-> IF create_type_maps THEN Some(node_type_map) ELSE None,
         edge_type_map |-> IF create_type_maps THEN Some(edge_type_map) ELSE None]

(***************************************************************************)
(* GraphSchema lookups                                                     *)
(***************************************************************************)
\* the try block returns self.node_types[index]; any exception gives None
node_index_to_key(schema, index) == GetItem(schema.node_types, index)

edge_index_to_key(schema, index) == GetItem(schema.edge_types, index)

\* nt = self.node_type_map[node]; node_type = nt if index else
\* self.node_types[index], where index is the flag (False indexes as 0);
\* TypeError (no map), KeyError and IndexError all give None
get_node_type(schema, node, index) ==
    IF schema.node_type_map = None THEN None
    ELSE LET node_type_map == schema.node_type_map[1]
         IN  IF node \notin DOMAIN node_type_map THEN None
             ELSE IF index THEN Some(node_type_map[node])
             ELSE GetItem(schema.node_types, 0)

(***************************************************************************)
(* GraphSchema.get_sampling_tree                                           *)
(***************************************************************************)
\* gen_key with a separator between the key and the first argument
gen_key_LeadingSeparator(key, args) ==
    key \o "_" \o Join("_", [i \in 1..Len(args) |-> ToStr(args[i])])

\* key + "_".join(map(str, args))
gen_key(key, args) == key \o Join("_", [i \in 1..Len(args) |-> ToStr(args[i])])

\* the key handed to the children of child ii
ChildKey(key, ii) == gen_key(key, <<ii>>) \o "_"

\* RootKey without the "#" that ends the root's part of the key
RootKey_NoHash(jj) == ToStr(jj)

\* the key handed to the children of root jj
RootKey(jj) == gen_key("", <<jj>>) \o "#"

RECURSIVE get_neighbor_types(_, _, _, _, _)
RECURSIVE NeighbourList(_, _, _, _, _, _, _)

\* the list comprehension of get_neighbor_types from element ii on; acc is
\* the list built so far, and the first exception ends the evaluation
NeighbourList(schema, node_type, level, key, depth, ii, acc) ==
    IF ii >= Len(schema.schema[node_type]) THEN Return(acc)
    ELSE LET et == schema.schema[node_type][ii + 1]
             sub == get_neighbor_types(schema, et.n2, level - 1,
                                       ChildKey(key, ii), depth + 1)
         IN  IF sub.raised # "" THEN sub
             ELSE NeighbourList(schema, node_type, level, key, depth, ii + 1,
                                Append(acc, <<gen_key(key, <<ii>>), et, sub.val>>))

\* depth is the number of nested calls
get_neighbor_types(schema, node_type, level, key, depth) ==
    IF depth > RecursionLimit THEN Raise("RecursionError")
    ELSE IF level = 0 THEN Return(<<>>)
    ELSE IF node_type \notin DOMAIN schema.schema THEN Raise("KeyError")
    ELSE NeighbourList(schema, node_type, level, key, depth, 0, <<>>)

RECURSIVE RootList(_, _, _, _, _)
\* the list comprehension over enumerate(head_node_types) from root jj on
RootList(schema, head_node_types, n_hops, jj, acc) ==
    IF jj >= Len(head_node_types) THEN Return(acc)
    ELSE LET node_type == head_node_types[jj + 1]
             sub == get_neighbor_types(schema, node_type, n_hops, RootKey(jj), 1)
         IN  IF sub.raised # "" THEN sub
             ELSE RootList(schema, head_node_types, n_hops, jj + 1,
                           Append(acc, <<ToStr(jj), node_type, sub.val>>))

get_sampling_tree(schema, head_node_types, n_hops) ==
    RootList(schema, head_node_types, n_hops, 0, <<>>)

(***************************************************************************)
(* GraphSchema.get_type_adjacency_list, statement by statement             *)
(***************************************************************************)
\* the loop "for ii, hn in enumerate(head_node_types)": the queue
HeadQueue(head_node_types, n_hops) ==
    IF n_hops > 0
    THEN [ii \in 1..Len(head_node_types) |-> <<head_node_types[ii], ii - 1, 0>>]
    ELSE <<>>

\* the loop "for ii, hn in enumerate(head_node_types)": the list
HeadList(head_node_types) ==
    [ii \in 1..Len(head_node_types) |-> <<head_node_types[ii], <<>>>>]

\* AppendChild with cinx taken after the append
AppendChild_IndexAfterAppend(cl, ninx, et) ==
    LET appended == Append(cl, <<et.n2, <<>>>>)
        cinx == Len(appended)
    IN  [appended EXCEPT ![ninx + 1][2] = Append(@, cinx)]

\* cinx = len(clist); clist.append((et.n2, [])); clist[ninx][1].append(cinx)
AppendChild(cl, ninx, et) ==
    LET cinx == Len(cl)
        appended == Append(cl, <<et.n2, <<>>>>)
    IN  [appended EXCEPT ![ninx + 1][2] = Append(@, cinx)]

\* ExpandFurther one level too deep
ExpandFurther_OneMore(n_hops, lvl) == n_hops > lvl

\* if n_hops > lvl + 1
ExpandFurther(n_hops, lvl) == n_hops > lvl + 1

(***************************************************************************)
(* Arguments of the calls                                                  *)
(***************************************************************************)
HeadLabels == NodeLabels \cup {UnknownLabel}

ShortHeads == UNION {[1..k -> HeadLabels] : k \in 0..2}

LongHeads == {[k \in 1..MaxHeads |-> "A"]}

HeadSeqs == ShortHeads \cup LongHeads

Hops == (-1)..MaxHops

Indices == (-2)..3

(***************************************************************************)
(* State machine.  A schema is never changed once it is built and no call  *)
(* keeps state, so a behaviour is: the graph exists, create_graph_schema   *)
(* builds the schema, one call is made on it.                              *)
(***************************************************************************)
Init ==
    /\ G \in Graphs
    /\ gs = None
    /\ pc = "start"
    /\ call = NoCall
    /\ ret = Return(None)
    /\ to_process = <<>>
    /\ clist = <<>>
    /\ cur = NoCur

CreateGraphSchema ==
    /\ pc = "start"
    /\ pc' = "idle"
    /\ \E create_type_maps \in BOOLEAN :
        /\ gs' = Some(create_graph_schema(G, create_type_maps))
        /\ call' = [op |-> "create_graph_schema", create_type_maps |-> create_type_maps]
    /\ ret' = Return(gs')
    /\ UNCHANGED <<G, to_process, clist, cur>>

NodeIndexToKey ==
    /\ pc = "idle"
    /\ \E index \in Indices :
        /\ call' = [op |-> "node_index_to_key", index |-> index]
        /\ ret' = Return(node_index_to_key(gs[1], index))
    /\ pc' = "done"
    /\ UNCHANGED <<G, gs, to_process, clist, cur>>

EdgeIndexToKey ==
    /\ pc = "idle"
    /\ \E index \in Indices :
        /\ call' = [op |-> "edge_index_to_key", index |-> index]
        /\ ret' = Return(edge_index_to_key(gs[1], index))
    /\ pc' = "done"
    /\ UNCHANGED <<G, gs, to_process, clist, cur>>

GetNodeType ==
    /\ pc = "idle"
    /\ \E node \in NodeIds \cup {3}, index \in BOOLEAN :
        /\ call' = [op |-> "get_node_type", node |-> node, index |-> index]
        /\ ret' = Return(get_node_type(gs[1], node, index))
    /\ pc' = "done"
    /\ UNCHANGED <<G, gs, to_process, clist, cur>>

GetSamplingTree ==
    /\ pc = "idle"
    /\ \E head_node_types \in HeadSeqs, n_hops \in Hops :
        /\ call' = [op |-> "get_sampling_tree",
                    head_node_types |-> head_node_types, n_hops |-> n_hops]
        /\ ret' = get_sampling_tree(gs[1], head_node_types, n_hops)
    /\ pc' = "done"
    /\ UNCHANGED <<G, gs, to_process, clist, cur>>

\* the call and the loop over the head nodes
AdjacencyHeads ==
    /\ pc = "idle"
    /\ \E head_node_types \in HeadSeqs, n_hops \in Hops :
        /\ call' = [op |-> "get_type_adjacency_list",
                    head_node_types |-> head_node_types, n_hops |-> n_hops]
        /\ to_process' = HeadQueue(head_node_types, n_hops)
        /\ clist' = HeadList(head_node_types)
    /\ pc' = "while"
    /\ ret' = Return(None)
    /\ UNCHANGED <<G, gs, cur>>

\* nt, ninx, lvl = to_process.get(); ets = self.schema[nt]
AdjacencyGet ==
    /\ pc = "while" /\ to_process # <<>>
    /\ LET item == Head(to_process)
           nt == item[1]
       IN  IF nt \notin DOMAIN gs[1].schema
           THEN /\ ret' = Raise("KeyError")
                /\ pc' = "done"
                /\ to_process' = <<>>
                /\ clist' = <<>>
                /\ cur' = NoCur
           ELSE LET ets == gs[1].schema[nt]
                IN  /\ to_process' = Tail(to_process)
                    /\ cur' = IF ets = <<>> THEN NoCur
                              ELSE [nt |-> nt, ninx |-> item[2], lvl |-> item[3],
                                    ets |-> ets, k |-> 1]
                    /\ pc' = IF ets = <<>> THEN "while" ELSE "for"
                    /\ UNCHANGED <<ret, clist>>
    /\ UNCHANGED <<G, gs, call>>

\* one iteration of "for et in ets"
AdjacencyFor ==
    /\ pc = "for"
    /\ LET et == cur.ets[cur.k]
           cinx == Len(clist)
       IN  /\ clist' = AppendChild(clist, cur.ninx, et)
           /\ to_process' = IF ExpandFurther(call.n_hops, cur.lvl)
                            THEN Append(to_process, <<et.n2, cinx, cur.lvl + 1>>)
                            ELSE to_process
    /\ IF cur.k < Len(cur.ets)
       THEN /\ cur' = [cur EXCEPT !.k = @ + 1]
            /\ pc' = "for"
       ELSE /\ cur' = NoCur
            /\ pc' = "while"
    /\ UNCHANGED <<G, gs, call, ret>>

\* the queue is empty: return clist
AdjacencyReturn ==
    /\ pc = "while" /\ to_process = <<>>
    /\ ret' = Return(clist)
    /\ pc' = "done"
    /\ clist' = <<>>
    /\ UNCHANGED <<G, gs, call, to_process, cur>>

Next ==
    \/ CreateGraphSchema
    \/ NodeIndexToKey
    \/ EdgeIndexToKey
    \/ GetNodeType
    \/ GetSamplingTree
    \/ AdjacencyHeads
    \/ AdjacencyGet
    \/ AdjacencyFor
    \/ AdjacencyReturn

Spec == Init /\ [][Next]_vars

(***************************************************************************)
(* Reading the returned structures                                         *)
(***************************************************************************)
TreeCall == call.op = "get_sampling_tree"
AdjCall == call.op = "get_type_adjacency_list"
Returned == pc = "done" /\ ret.raised = ""

NoDuplicates(s) == \A i \in 1..Len(s), j \in 1..Len(s) : s[i] = s[j] => i = j

\* the multiset of the elements of a sequence, as element -> number of occurrences
BagOf(s) == [x \in Range(s) |-> Cardinality({i \in 1..Len(s) : s[i] = x})]

RECURSIVE TreeIds(_)
\* the ids of all nodes of a list of tree nodes (id, type, children)
TreeIds(forest) ==
    IF forest = <<>> THEN <<>>
    ELSE <<Head(forest)[1]>> \o TreeIds(Head(forest)[3]) \o TreeIds(Tail(forest))

RECURSIVE TreePaths(_, _, _)
\* the node-type paths from the roots to the leaves of a list of tree nodes;
\* a root carries its node type, a descendant the edge type that leads to it
TreePaths(forest, prefix, isRoot) ==
    IF forest = <<>> THEN <<>>
    ELSE LET nd == Head(forest)
             path == Append(prefix, IF isRoot THEN nd[2] ELSE nd[2].n2)
         IN  (IF nd[3] = <<>> THEN <<path>> ELSE TreePaths(nd[3], path, FALSE))
                 \o TreePaths(Tail(forest), prefix, isRoot)

RECURSIVE AdjPaths(_, _, _)
\* the node-type paths from the entries inxs to the leaves of an adjacency list
AdjPaths(cl, inxs, prefix) ==
    IF inxs = <<>> THEN <<>>
    ELSE LET entry == cl[Head(inxs) + 1]
             path == Append(prefix, entry[1])
         IN  (IF entry[2] = <<>> THEN <<path>> ELSE AdjPaths(cl, entry[2], path))
                 \o AdjPaths(cl, Tail(inxs), prefix)

HeadInxs(head_node_types) == [j \in 1..Len(head_node_types) |-> j - 1]

ForwardIndices(cl) ==
    \A i \in 1..Len(cl) : \A k \in 1..Len(cl[i][2]) :
        cl[i][2][k] > i - 1 /\ cl[i][2][k] < Len(cl)

HasUnknownHead ==
    \E j \in 1..Len(call.head_node_types) :
        call.head_node_types[j] \notin Range(gs[1].node_types)

(***************************************************************************)
(* C1: in the adjacency list, while it is built and when it is returned,   *)
(* every child index stored in entry i is greater than i and smaller than  *)
(* the length of the list.                                                 *)
(***************************************************************************)
C1_ChildIndicesForward ==
    /\ ForwardIndices(clist)
    /\ (AdjCall /\ Returned) => ForwardIndices(ret.val)

\* a returned list of depth 2: an entry that is not a head has children
C1_Witness ==
    /\ AdjCall /\ Returned /\ call.n_hops >= 0
    /\ ~HasUnknownHead
    /\ \E i \in 1..Len(ret.val) :
        i > Len(call.head_node_types) /\ Len(ret.val[i][2]) >= 2

(***************************************************************************)
(* C2: for the same schema, heads and n_hops >= 0, the returned adjacency  *)
(* list and the sampling tree have the same multiset of node-type paths    *)
(* from the roots to the leaves.                                           *)
(***************************************************************************)
C2_SameTypePaths ==
    (AdjCall /\ Returned /\ call.n_hops >= 0) =>
        LET tree == get_sampling_tree(gs[1], call.head_node_types, call.n_hops)
        IN  /\ tree.raised = ""
            /\ BagOf(TreePaths(tree.val, <<>>, TRUE))
                 = BagOf(AdjPaths(ret.val, HeadInxs(call.head_node_types), <<>>))

\* two equal heads and two hops: some path of three types occurs more than once
C2_Witness ==
    /\ AdjCall /\ Returned /\ call.n_hops = 2
    /\ LET paths == AdjPaths(ret.val, HeadInxs(call.head_node_types), <<>>)
       IN  \E i \in 1..Len(paths), j \in 1..Len(paths) :
               i # j /\ paths[i] = paths[j] /\ Len(paths[i]) = 3

(***************************************************************************)
(* C3: a head node type that is not in the schema makes get_sampling_tree  *)
(* and get_type_adjacency_list raise, for every n_hops >= 0.               *)
(***************************************************************************)
C3_UnknownHeadRaises ==
    (pc = "done" /\ (TreeCall \/ AdjCall) /\ call.n_hops >= 0 /\ HasUnknownHead)
        => ret.raised # ""

(***************************************************************************)
(* C4: n_hops < 0 makes get_sampling_tree and get_type_adjacency_list      *)
(* raise; nothing is returned.                                             *)
(***************************************************************************)
C4_NegativeHopsRaises ==
    (pc = "done" /\ (TreeCall \/ AdjCall) /\ call.n_hops < 0) => ret.raised # ""

(***************************************************************************)
(* C5                                                                      *)
(***************************************************************************)
RECURSIVE ChildIdsAppendIndexUnderscore(_)
ChildIdsAppendIndexUnderscore(nd) ==
    \A i \in 1..Len(nd[3]) :
        /\ nd[3][i][1] = nd[1] \o ToStr(i - 1) \o "_"
        /\ ChildIdsAppendIndexUnderscore(nd[3][i])

\* C5 as stated: root j has id "j#" and child i of a node whose id (its
\* running key) is p has id p + "i_".
C5_IdsAsStated ==
    (TreeCall /\ Returned) =>
        \A j \in 1..Len(ret.val) :
            /\ ret.val[j][1] = ToStr(j - 1) \o "#"
            /\ ChildIdsAppendIndexUnderscore(ret.val[j])

RECURSIVE ChildIdsSeparatorThenIndex(_, _)
ChildIdsSeparatorThenIndex(nd, sep) ==
    \A i \in 1..Len(nd[3]) :
        /\ nd[3][i][1] = nd[1] \o sep \o ToStr(i - 1)
        /\ ChildIdsSeparatorThenIndex(nd[3][i], "_")

\* C5 (amended): root j has id "j"; child i of root j has id "j#i"; child i
\* of any other node with id q has id q + "_" + "i".
C5_IdsFromParentId ==
    (TreeCall /\ Returned) =>
        \A j \in 1..Len(ret.val) :
            /\ ret.val[j][1] = ToStr(j - 1)
            /\ ChildIdsSeparatorThenIndex(ret.val[j], "#")

\* a tree whose second root has a second child with a second child
C5_Witness ==
    /\ TreeCall /\ Returned /\ call.n_hops = 2
    /\ Len(ret.val) >= 2
    /\ Len(ret.val[2][3]) >= 2
    /\ Len(ret.val[2][3][2][3]) >= 2

(***************************************************************************)
(* C6: for n_hops >= 0 all ids of the returned sampling tree are pairwise  *)
(* distinct, over all roots and all descendants.                           *)
(***************************************************************************)
C6_IdsDistinct ==
    (TreeCall /\ Returned /\ call.n_hops >= 0) => NoDuplicates(TreeIds(ret.val))

\* more than 10 heads, the first with more than 10 children that have children
C6_Witness ==
    /\ TreeCall /\ Returned /\ call.n_hops >= 2
    /\ Len(ret.val) > 10
    /\ Len(ret.val[1][3]) > 10
    /\ \A i \in 1..Len(ret.val[1][3]) : ret.val[1][3][i][3] # <<>>

(***************************************************************************)
(* C7: with type maps built, get_node_type(n, index=False) is the label of *)
(* n's own type, node_types[get_node_type(n, index=True)], for n in        *)
(* node_type_map, and None for any other n.                                *)
(***************************************************************************)
C7_NodeTypeLabel ==
    (pc = "done" /\ call.op = "get_node_type" /\ ~call.index
        /\ gs[1].node_type_map # None) =>
        LET node_type_map == gs[1].node_type_map[1]
        IN  IF call.node \in DOMAIN node_type_map
            THEN ret.val = Some(gs[1].node_types[node_type_map[call.node] + 1])
            ELSE ret.val = None

(***************************************************************************)
(* C8: in the schema of an undirected graph, every edge with relation r    *)
(* between nodes of types A # B gives (A, r, B) and (B, r, A) in           *)
(* edge_types, (A, r, B) in schema[A] and (B, r, A) in schema[B].          *)
(***************************************************************************)
C8_UndirectedSymmetry ==
    (gs # None /\ ~G.directed) =>
        \A k \in 1..Len(G.edges) :
            LET A == G.node[G.edges[k].n1]
                B == G.node[G.edges[k].n2]
                r == G.edges[k].label
            IN  A # B =>
                    /\ EdgeType(A, r, B) \in Range(gs[1].edge_types)
                    /\ EdgeType(B, r, A) \in Range(gs[1].edge_types)
                    /\ EdgeType(A, r, B) \in Range(gs[1].schema[A])
                    /\ EdgeType(B, r, A) \in Range(gs[1].schema[B])

\* the schema of an undirected graph with an edge between two node types
C8_Witness ==
    /\ gs # None /\ ~G.directed
    /\ \E k \in 1..Len(G.edges) : G.node[G.edges[k].n1] # G.node[G.edges[k].n2]

(***************************************************************************)
(* C9: node_index_to_key(i) and edge_index_to_key(i) return None for every *)
(* i outside 0..len-1, negative i included, and the label at i otherwise.  *)
(***************************************************************************)
C9_OutOfRangeIsNone ==
    (pc = "done" /\ call.op \in {"node_index_to_key", "edge_index_to_key"}) =>
        LET types == IF call.op = "node_index_to_key"
                     THEN gs[1].node_types ELSE gs[1].edge_types
        IN  IF 0 <= call.index /\ call.index < Len(types)
            THEN ret.val = Some(types[call.index + 1])
            ELSE ret.val = None

(***************************************************************************)
(* C10: in every schema edge_types has no duplicates, every triple of      *)
(* schema[t] has n1 = t and is in edge_types, and schema[t] is the         *)
(* subsequence of edge_types with source t, in the order of edge_types.    *)
(***************************************************************************)
C10_SchemaFiltersEdgeTypes ==
    gs # None =>
        /\ NoDuplicates(gs[1].edge_types)
        /\ \A t \in DOMAIN gs[1].schema :
            LET FromT(et) == et.n1 = t
            IN  /\ \A i \in 1..Len(gs[1].schema[t]) :
                       /\ gs[1].schema[t][i].n1 = t
                       /\ gs[1].schema[t][i] \in Range(gs[1].edge_types)
                /\ gs[1].schema[t] = SelectSeq(gs[1].edge_types, FromT)

\* two node types with outgoing edge types, one of them with at least two
C10_Witness ==
    /\ gs # None
    /\ \E t \in DOMAIN gs[1].schema, u \in DOMAIN gs[1].schema :
        t # u /\ Len(gs[1].schema[t]) >= 2 /\ Len(gs[1].schema[u]) >= 1
=============================================================================
